---- MODULE Spec2Model ----
(***************************************************************************)
(* POD ledger of jeffperkel/CPG_POD_TEST: validation and enrichment of a   *)
(* proposed transaction, the single-transaction commit, the bulk ingestion *)
(* pipeline and the SQLite store they write to (pod_agent/logic.py,        *)
(* pod_agent/database.py, pod_agent/api.py).                               *)
(*                                                                         *)
(* Python dicts are records: DOMAIN d is the dict's key set, so a lookup   *)
(* d['k'] of a key the dict does not hold is a KeyError.  Module           *)
(* attributes and table columns are sets of names for the same reason.     *)
(* Dates are day numbers; "%Y-%m-%d" strings order the same way.           *)
(***************************************************************************)
EXTENDS Integers, Sequences, FiniteSets, TLC

VARIABLES
    schema,      \* which transactions table pods_ledger.db holds
    skus,        \* rows of master table skus, in rowid order
    retailers,   \* rows of master table retailers, in rowid order
    ledger,      \* rows of table transactions, in insertion order
    today,       \* date.today()
    pc,          \* per request thread: position in POST /transactions
    sent,        \* per request thread: the body of its last request
    req,         \* per request thread: the validated_data it is committing
    seen,        \* per request thread: the total its loss check read
    outcome,     \* per request thread: how its last request ended
    bulk,        \* result of the last POST /transactions/bulk_upload
    upload,      \* the file of the last upload, where a check needs it
    view         \* result of the last aggregation or export

vars == <<schema, skus, retailers, ledger, today, pc, sent, req, seen, outcome, bulk,
          upload, view>>

----------------------------------------------------------------------------
(* Bounds of the model *)

MaxDay == 3
MaxQty == 2
MaxBatch == 2
MaxLedger == 3
BatchLen == 3

Procs == {1, 2}
Days == 1..MaxDay

----------------------------------------------------------------------------
(* Program constants and seed data *)

FUZZY_MATCH_THRESHOLD == 80

\* two of the seeded products and two of the seeded retailers
initial_skus ==
    << [product_name |-> "12oz cheerios", sku_id |-> "01600027525"],
       [product_name |-> "family size oreos", sku_id |-> "04400003327"] >>

initial_retailers ==
    << [retailer_key |-> "walmart", retailer_name |-> "Walmart", division |-> "National"],
       [retailer_key |-> "target", retailer_name |-> "Target", division |-> "National"] >>

\* Attributes that module pod_agent.database defines.
DatabaseAttrs ==
    {"DATABASE_FILE", "init_db_and_seed", "get_master_data_from_db",
     "get_info_from_names", "check_for_duplicate", "insert_transaction",
     "get_all_transactions_as_dataframe", "get_recent_transactions",
     "get_total_for_item_by_date"}

\* Columns of table transactions.  init_db_and_seed creates the relational
\* table only IF NOT EXISTS: a pods_ledger.db written by the earlier layout
\* keeps its flat table, the one process_bulk_file still inserts into.
RelationalColumns ==
    {"trx_id", "sku_id", "retailer_id", "status", "quantity_changed",
     "effective_date", "log_timestamp", "user_id", "source"}

LegacyColumns ==
    {"trx_id", "sku", "product_name", "retailer", "division", "status",
     "quantity_changed", "effective_date", "log_timestamp", "user_id", "source"}

TransactionsColumns(s) == IF s = "relational" THEN RelationalColumns ELSE LegacyColumns

----------------------------------------------------------------------------
(* Raw input.  A field holds what `get(a) or get(b)` yields; every falsy    *)
(* value (None, "", 0) takes the same branches and is written as below.     *)

NoStr == ""
NoQty == 0
NoDate == 0
BadDate == -1      \* a string pd.to_datetime cannot parse

\* str.lower() on the strings the model submits
Lower(s) ==
    CASE s = "12oz Cheerios" -> "12oz cheerios"
      [] s = "Family Size Oreos" -> "family size oreos"
      [] s = "Walmart" -> "walmart"
      [] s = "Planned" -> "planned"
      [] s = "LOST" -> "lost"
      [] OTHER -> s

\* thefuzz WRatio of a lower-cased query against a catalog entry, on the
\* queries the model submits: equal strings score 100, a query that is a
\* whole word of a longer entry scores 90 (partial ratio 100, scaled 0.9),
\* "12 oz cheerio" stands for a near miss at the threshold, "12 cheerio"
\* for one just under it, anything else scores low.
Score(query, choice) ==
    CASE query = choice -> 100
      [] query = "cheerios" /\ choice = "12oz cheerios" -> 90
      [] query = "12 oz cheerio" /\ choice = "12oz cheerios" -> 80
      [] query = "12 cheerio" /\ choice = "12oz cheerios" -> 79
      [] OTHER -> 30

None == "None"

\* process.extractOne: the first choice, in list order, of the top score
ExtractOne(query, choices) ==
    LET best == CHOOSE i \in 1..Len(choices) :
                   /\ \A j \in 1..Len(choices) : Score(query, choices[j]) <= Score(query, choices[i])
                   /\ \A j \in 1..(i - 1) : Score(query, choices[j]) < Score(query, choices[i])
    IN  <<choices[best], Score(query, choices[best])>>

\* line 27 with > for >=
find_best_match_above(query, valid_choices_list) ==
    IF query = NoStr THEN None
    ELSE LET m == ExtractOne(Lower(query), valid_choices_list)
         IN  IF m[2] > FUZZY_MATCH_THRESHOLD THEN m[1] ELSE None

find_best_match(query, valid_choices_list) ==
    IF query = NoStr THEN None
    ELSE LET m == ExtractOne(Lower(query), valid_choices_list)
         IN  IF m[2] >= FUZZY_MATCH_THRESHOLD THEN m[1] ELSE None

\* SELECT product_name FROM skus / SELECT retailer_key FROM retailers, in
\* rowid order (the seed's insertion order)
get_master_data_from_db(table_name) ==
    IF table_name = "skus"
    THEN [i \in 1..Len(skus) |-> skus[i].product_name]
    ELSE [i \in 1..Len(retailers) |-> retailers[i].retailer_key]

\* an exception: its class, its message, and the input the message quotes
Raise(e, m) == [ok |-> FALSE, exc |-> e, msg |-> m, about |-> NoStr]
RaiseNaming(e, m, input) == [ok |-> FALSE, exc |-> e, msg |-> m, about |-> input]
Return(v) == [ok |-> TRUE, value |-> v]

\* line 35: not all([product_input, retailer_input, quantity_input, intent_input])
\* line 35 with the quantity left out of the list
required_missing_without_quantity(product_input, retailer_input, quantity_input, intent_input) ==
    \/ product_input = NoStr
    \/ retailer_input = NoStr
    \/ intent_input = NoStr

\* line 35: not all([...]), every falsy input counts as missing

required_missing(product_input, retailer_input, quantity_input, intent_input) ==
    \/ product_input = NoStr
    \/ retailer_input = NoStr
    \/ quantity_input = NoQty
    \/ intent_input = NoStr

\* line 58 with >= for >
final_status_on_or_after(intent, validated_date, day) ==
    IF intent = "planned"
    THEN (IF validated_date >= day THEN "planned" ELSE "live")
    ELSE "lost"

\* lines 56-61, for an intent that is 'planned' or 'lost'
final_status(intent, validated_date, day) ==
    IF intent = "planned"
    THEN (IF validated_date > day THEN "planned" ELSE "live")
    ELSE "lost"

\* line 60 without the minus sign
quantity_changed_not_negated(intent, quantity) ==
    IF quantity < 0 THEN -quantity ELSE quantity

quantity_changed(intent, quantity) ==
    IF intent = "planned"
    THEN (IF quantity < 0 THEN -quantity ELSE quantity)
    ELSE -(IF quantity < 0 THEN -quantity ELSE quantity)

\* The model keeps no clock: `stamp` stands for time.time() / datetime.now()
\* at the call, which only has to be non-decreasing from call to call.
\* Line 65: trx_id is f"{sku_id}-{time.time()}", the pair below.
validate_and_enrich_data(parsed_data, source, day, stamp) ==
    LET product_input == parsed_data.product_name
        retailer_input == parsed_data.retailer_name
        quantity_input == parsed_data.quantity
        intent_input == parsed_data.status
        date_input == parsed_data.effective_date
        sku_key == find_best_match(product_input, get_master_data_from_db("skus"))
        retailer_key == find_best_match(retailer_input, get_master_data_from_db("retailers"))
        validated_date == IF date_input = NoDate THEN day ELSE date_input
        intent == Lower(intent_input)
        quantity == quantity_input
        sku_row == CHOOSE r \in {skus[i] : i \in 1..Len(skus)} : r.product_name = sku_key
        retailer_row == CHOOSE r \in {retailers[i] : i \in 1..Len(retailers)} :
                            r.retailer_key = retailer_key
    IN  IF required_missing(product_input, retailer_input, quantity_input, intent_input)
        THEN Raise("ValueError", "Missing one or more required fields.")
        ELSE IF sku_key = None THEN RaiseNaming("ValueError", "Invalid SKU", product_input)
        ELSE IF retailer_key = None
             THEN RaiseNaming("ValueError", "Invalid Retailer", retailer_input)
        ELSE IF date_input = BadDate THEN Raise("ValueError", "Unknown datetime string format")
        ELSE IF intent \notin {"planned", "lost"}
             THEN RaiseNaming("ValueError", "Invalid action intent", intent)
        ELSE Return(
            [trx_id |-> <<sku_row.sku_id, stamp>>, sku |-> sku_row.sku_id,
             product_name |-> sku_key, retailer |-> retailer_row.retailer_name,
             division |-> retailer_row.division,
             status |-> final_status(intent, validated_date, day),
             quantity_changed |-> quantity_changed(intent, quantity),
             effective_date |-> validated_date,
             log_timestamp |-> stamp, user_id |-> "api_user", source |-> source])

----------------------------------------------------------------------------
(* The store: pod_agent/database.py *)

\* The columns of a persisted tuple that the modelled queries read; the
\* ledger keeps each row's projection on them.
ModelledColumns ==
    {"sku_id", "retailer_id", "product_name", "retailer", "status",
     "quantity_changed", "effective_date"}

Row(t, columns) == [k \in (columns \cap ModelledColumns) |-> t[k]]

\* the attribute lookup database.<name>
database_getattr(name) ==
    IF name \in DatabaseAttrs THEN Return(name) ELSE Raise("AttributeError", name)

RECURSIVE SumDelta(_)
SumDelta(rows) ==
    IF rows = <<>> THEN 0 ELSE Head(rows).quantity_changed + SumDelta(Tail(rows))

get_total_for_item_by_date(sku_id, retailer_id, effective_date, rows, s) ==
    IF ~({"sku_id", "retailer_id", "effective_date", "quantity_changed"}
            \subseteq TransactionsColumns(s))
    THEN Raise("OperationalError", "no such column: sku_id")
    ELSE Return(SumDelta(SelectSeq(rows, LAMBDA r :
                    /\ r.sku_id = sku_id /\ r.retailer_id = retailer_id
                    /\ r.effective_date <= effective_date)))

DuplicateKeys == {"sku_id", "retailer_id", "quantity_changed", "effective_date"}

check_for_duplicate(transaction_data, rows, s) ==
    IF ~(DuplicateKeys \subseteq DOMAIN transaction_data)
    THEN Raise("KeyError", "sku_id")
    ELSE IF ~(DuplicateKeys \subseteq TransactionsColumns(s))
    THEN Raise("OperationalError", "no such column: sku_id")
    ELSE Return(\E i \in 1..Len(rows) :
                    \A k \in DuplicateKeys : rows[i][k] = transaction_data[k])

insert_transaction(transaction_data, rows, s) ==
    IF ~(RelationalColumns \subseteq DOMAIN transaction_data)
    THEN Raise("KeyError", "sku_id")
    ELSE IF ~(RelationalColumns \subseteq TransactionsColumns(s))
    THEN Raise("OperationalError", "table transactions has no column named sku_id")
    ELSE Return(Append(rows, Row(transaction_data, RelationalColumns)))

----------------------------------------------------------------------------
(* The committer: process_new_transaction, one step per database call *)

Abs(n) == IF n < 0 THEN -n ELSE n

\* lines 69-80: Return(total read) to go on, or the exception raised.
\* database.py defines no get_current_total_for_item, so the attribute lookup
\* of line 70 raises before anything is read.
loss_check(validated_data, rows) ==
    IF validated_data.quantity_changed < 0
    THEN LET f == database_getattr("get_current_total_for_item")
             quantity_to_lose == Abs(validated_data.quantity_changed)
         IN  IF ~f.ok THEN f
             ELSE IF quantity_to_lose > f.value
                  THEN Raise("ValueError", "Cannot lose")
                  ELSE Return(f.value)
    ELSE Return(0)

\* lines 81-82
duplicate_check(validated_data, rows, s) ==
    LET d == check_for_duplicate(validated_data, rows, s)
    IN  IF ~d.ok THEN d
        ELSE IF d.value THEN Raise("ValueError", "Duplicate transaction detected.")
        ELSE Return(FALSE)

\* lines 68-84 with the faults of the store swallowed: only a ValueError
\* leaves the call, anything else is answered like a commit
process_new_transaction_swallowing(validated_data, rows, s) ==
    LET l == loss_check(validated_data, rows)
        d == duplicate_check(validated_data, rows, s)
        i == insert_transaction(validated_data, rows, s)
        r == IF ~l.ok THEN l ELSE IF ~d.ok THEN d ELSE i
    IN  IF r.ok \/ r.exc = "ValueError" THEN r ELSE Return(rows)

\* the whole call, uninterrupted: Return(rows after the insert) or the exception
process_new_transaction(validated_data, rows, s) ==
    LET l == loss_check(validated_data, rows)
        d == duplicate_check(validated_data, rows, s)
    IN  IF ~l.ok THEN l
        ELSE IF ~d.ok THEN d
        ELSE insert_transaction(validated_data, rows, s)

\* api.create_transaction's answer: 200, 400 for a ValueError, 500 otherwise
Answer(r) ==
    IF r.ok THEN [code |-> 200, exc |-> "", msg |-> "success", about |-> NoStr]
    ELSE [code |-> IF r.exc = "ValueError" THEN 400 ELSE 500, exc |-> r.exc,
          msg |-> r.msg, about |-> r.about]

NoAnswer == [code |-> 0, exc |-> "", msg |-> "", about |-> NoStr]
NoData == [none |-> TRUE]
NoBody == [none |-> TRUE]

----------------------------------------------------------------------------
(* The bulk pipeline: process_bulk_file *)

\* lines 90-94: every row enriched on its own, in file order; clock[i] is
\* the reading of the clock when row i is enriched
RECURSIVE EnrichFrom(_, _, _, _)
EnrichFrom(rows_in, clock, day, i) ==
    IF i > Len(rows_in) THEN <<>>
    ELSE << validate_and_enrich_data(rows_in[i], "bulk_upload", day, clock[i]) >>
         \o EnrichFrom(rows_in, clock, day, i + 1)

EnrichAll(rows_in, clock, day) == EnrichFrom(rows_in, clock, day, 1)

RECURSIVE RowErrors(_, _)
RowErrors(v, i) ==
    IF i > Len(v) THEN <<>>
    ELSE (IF v[i].ok THEN <<>>
          ELSE << [kind |-> "row", row |-> i + 1, msg |-> v[i].msg,
                   about |-> v[i].about] >>)
         \o RowErrors(v, i + 1)

\* lines 90-94 leaving the loop at the first row that raises
RECURSIVE Enriched_until_failure(_, _)
Enriched_until_failure(v, i) ==
    IF i > Len(v) \/ ~v[i].ok THEN <<>>
    ELSE << v[i].value >> \o Enriched_until_failure(v, i + 1)

RECURSIVE Enriched(_, _)
Enriched(v, i) ==
    IF i > Len(v) THEN <<>>
    ELSE (IF v[i].ok THEN << v[i].value >> ELSE <<>>) \o Enriched(v, i + 1)

\* line 96: list.sort on the key (effective_date, log_timestamp); the sort is stable
KeyLess(a, b) ==
    \/ a.effective_date < b.effective_date
    \/ a.effective_date = b.effective_date /\ a.log_timestamp < b.log_timestamp

RECURSIVE SortedInsert(_, _)
SortedInsert(sq, x) ==
    IF sq = <<>> THEN << x >>
    ELSE IF KeyLess(x, Head(sq)) THEN << x >> \o sq
    ELSE << Head(sq) >> \o SortedInsert(Tail(sq), x)

\* the rows left in file order
SortSkipped(sq) == sq

RECURSIVE Sort(_)
Sort(sq) ==
    IF sq = <<>> THEN <<>>
    ELSE SortedInsert(Sort(SubSeq(sq, 1, Len(sq) - 1)), sq[Len(sq)])

\* temp_state.get(key, 0)
Get(temp_state, key) == IF key \in DOMAIN temp_state THEN temp_state[key] ELSE 0

\* lines 101-105 without the test: every row is taken
RECURSIVE Simulate_unchecked(_, _, _, _)
Simulate_unchecked(txs, temp_state, final, errors) ==
    IF txs = <<>> THEN [final |-> final, errors |-> errors, temp_state |-> temp_state]
    ELSE LET trx == Head(txs)
             key == <<trx.product_name, trx.retailer>>
             current_total == Get(temp_state, key)
         IN  Simulate_unchecked(Tail(txs),
                           [k \in DOMAIN temp_state \cup {key} |->
                               IF k = key THEN current_total + trx.quantity_changed
                               ELSE temp_state[k]],
                           Append(final, trx), errors)

\* lines 101-106 without the continue: a refused loss still moves the total
RECURSIVE Simulate_counting_refused(_, _, _, _)
Simulate_counting_refused(txs, temp_state, final, errors) ==
    IF txs = <<>> THEN [final |-> final, errors |-> errors, temp_state |-> temp_state]
    ELSE LET trx == Head(txs)
             key == <<trx.product_name, trx.retailer>>
             current_total == Get(temp_state, key)
             moved == [k \in DOMAIN temp_state \cup {key} |->
                          IF k = key THEN current_total + trx.quantity_changed
                          ELSE temp_state[k]]
         IN  IF trx.quantity_changed < 0 /\ Abs(trx.quantity_changed) > current_total
             THEN Simulate_counting_refused(Tail(txs), moved, final,
                           Append(errors, [kind |-> "consistency", row |-> 0,
                                           msg |-> "File consistency error",
                                           about |-> trx.product_name]))
             ELSE Simulate_counting_refused(Tail(txs), moved, Append(final, trx), errors)

\* lines 97-107: the simulation over the sorted rows
RECURSIVE Simulate(_, _, _, _)
Simulate(txs, temp_state, final, errors) ==
    IF txs = <<>> THEN [final |-> final, errors |-> errors, temp_state |-> temp_state]
    ELSE LET trx == Head(txs)
             key == <<trx.product_name, trx.retailer>>
             current_total == Get(temp_state, key)
         IN  IF trx.quantity_changed < 0 /\ Abs(trx.quantity_changed) > current_total
             THEN Simulate(Tail(txs), temp_state, final,
                           Append(errors, [kind |-> "consistency", row |-> 0,
                                           msg |-> "File consistency error",
                                           about |-> trx.product_name]))
             ELSE Simulate(Tail(txs),
                           [k \in DOMAIN temp_state \cup {key} |->
                               IF k = key THEN current_total + trx.quantity_changed
                               ELSE temp_state[k]],
                           Append(final, trx), errors)

\* lines 108-116 writing the batch over the table instead of after it
BulkInsert_replacing(final, rows, s) ==
    IF ~(LegacyColumns \subseteq TransactionsColumns(s))
    THEN Raise("OperationalError", "table transactions has no column named sku")
    ELSE Return([i \in 1..Len(final) |-> Row(final[i], LegacyColumns)])

\* lines 108-116 with execute for executemany: the first row alone is written
BulkInsert_first_row(final, rows, s) ==
    IF ~(LegacyColumns \subseteq TransactionsColumns(s))
    THEN Raise("OperationalError", "table transactions has no column named sku")
    ELSE Return(Append(rows, Row(final[1], LegacyColumns)))

\* lines 108-116: one executemany of the flat column list, in one transaction
BulkInsert(final, rows, s) ==
    IF ~(LegacyColumns \subseteq TransactionsColumns(s))
    THEN Raise("OperationalError", "table transactions has no column named sku")
    ELSE Return(rows \o [i \in 1..Len(final) |-> Row(final[i], LegacyColumns)])

\* lines 89-117, on the rows of the parsed frame: [count, errors, rows]
process_rows(rows_in, clock, rows, s, day) ==
    LET v == EnrichAll(rows_in, clock, day)
        errors == RowErrors(v, 1)
        enriched_transactions == Enriched(v, 1)
        sim == Simulate(Sort(enriched_transactions), <<>>, <<>>, errors)
        ins == BulkInsert(sim.final, rows, s)
    IN  IF enriched_transactions = <<>>
        THEN Return([count |-> 0, errors |-> errors, rows |-> rows])
        ELSE IF sim.final = <<>>
        THEN Return([count |-> 0, errors |-> sim.errors, rows |-> rows])
        ELSE IF ins.ok
        THEN Return([count |-> Len(sim.final), errors |-> sim.errors, rows |-> ins.value])
        ELSE Return([count |-> 0,
                     errors |-> Append(sim.errors,
                         [kind |-> "database", row |-> 0,
                          msg |-> "Database batch insert failed",
                          about |-> NoStr]),
                     rows |-> rows])

\* The readings of the clock while the rows of a file are enriched.  They
\* never decrease from one row to the next; a file that does not say
\* otherwise is enriched with the clock advancing between any two rows.
\* The ledger keeps neither trx_id nor log_timestamp, and the sort of line 96
\* is stable, so the readings reach nothing but the ids of the rows.
ReadingsOf(file) ==
    IF "clock" \in DOMAIN file THEN file.clock ELSE [i \in 1..Len(file.rows) |-> i]

\* lines 87-88 answering a file that cannot be read like a file of no rows
process_bulk_file_lenient(file, rows, s, day) ==
    IF ~file.parseable THEN Return([count |-> 0, errors |-> <<>>, rows |-> rows])
    ELSE process_rows(file.rows, ReadingsOf(file), rows, s, day)

\* file: [parseable, rows].  Return([count, errors, rows]) or the ValueError
\* of line 88.
process_bulk_file(file, rows, s, day) ==
    IF ~file.parseable THEN Raise("ValueError", "Could not parse CSV file")
    ELSE process_rows(file.rows, ReadingsOf(file), rows, s, day)

NoBulk == [code |-> 0, count |-> 0, errors |-> <<>>]
NoFile == [none |-> TRUE]
NoView == [none |-> TRUE]

----------------------------------------------------------------------------
(* Aggregation: execute_query_plan and the export *)

\* the columns of the frame get_all_transactions_as_dataframe selects
FrameColumns ==
    {"trx_id", "product_name", "retailer", "division", "status",
     "quantity_changed", "effective_date", "log_timestamp", "user_id", "source"}

NoFrame == [none |-> TRUE]

\* database.py lines 141-167 letting the failure of the query leave the call
get_all_transactions_as_dataframe_raising(rows, s) ==
    IF ~({"sku_id", "retailer_id"} \subseteq TransactionsColumns(s))
    THEN Raise("DatabaseError", "no such column: t.sku_id")
    ELSE [rows |-> <<>>]

\* database.py lines 141-167: transactions joined with skus and retailers on
\* t.sku_id = s.id and t.retailer_id = r.id (ids are the master rows' places);
\* a query that fails (DatabaseError) yields None
get_all_transactions_as_dataframe(rows, s) ==
    IF ~({"sku_id", "retailer_id"} \subseteq TransactionsColumns(s))
    THEN NoFrame
    ELSE LET matched == SelectSeq(rows, LAMBDA t :
                            /\ t.sku_id \in 1..Len(skus)
                            /\ t.retailer_id \in 1..Len(retailers))
         IN  [rows |-> [i \in 1..Len(matched) |->
                 [product_name |-> skus[matched[i].sku_id].product_name,
                  retailer |-> retailers[matched[i].retailer_id].retailer_name,
                  division |-> retailers[matched[i].retailer_id].division,
                  status |-> matched[i].status,
                  quantity_changed |-> matched[i].quantity_changed,
                  effective_date |-> matched[i].effective_date]]]

\* str.contains(value, case=False) on the strings of the model
Contains(text, value) ==
    \/ Lower(text) = Lower(value)
    \/ Lower(value) = "cheerios" /\ Lower(text) = "12oz cheerios"
    \/ Lower(value) = "oreos" /\ Lower(text) = "family size oreos"

\* lines 128-136: the empty series, indexed by the plan's dimensions
get_empty_multiindex_series(group_by_cols) ==
    [names |-> IF group_by_cols # <<>> THEN group_by_cols ELSE <<"Net PODs">>,
     data |-> <<>>]

\* lines 150-154: a filter on a column of the frame with a value keeps the
\* rows containing it; any other filter is passed over
ApplyFilters(frame_rows, filters) ==
    SelectSeq(frame_rows, LAMBDA row :
        \A column \in DOMAIN filters :
            (column \in FrameColumns /\ filters[column] # NoStr)
                => Contains(row[column], filters[column]))

GroupKey(row, group_by_cols) == [i \in 1..Len(group_by_cols) |-> row[group_by_cols[i]]]

\* lines 125-170.  A series is [names, data]: the index names and the value
\* at each index tuple.  An exception is the record Raise makes.
execute_query_plan(query_plan, include_future_dates_explicit, rows, s, day) ==
    LET df == get_all_transactions_as_dataframe(rows, s)
        group_by_cols == query_plan.group_by
        empty == get_empty_multiindex_series(group_by_cols)
        cut == IF ~include_future_dates_explicit
               THEN SelectSeq(df.rows, LAMBDA row : row.effective_date <= day)
               ELSE df.rows
        results_df == ApplyFilters(cut, query_plan.filters)
        missing_cols == {i \in 1..Len(group_by_cols) : group_by_cols[i] \notin FrameColumns}
        keys == {GroupKey(results_df[i], group_by_cols) : i \in 1..Len(results_df)}
    IN  IF df = NoFrame THEN empty
        ELSE IF "rows" \notin DOMAIN df THEN df      \* an exception of the read
        ELSE IF df.rows = <<>> THEN empty
        ELSE IF results_df = <<>> THEN empty
        ELSE IF group_by_cols # <<>>
        THEN (IF missing_cols # {} THEN empty
              ELSE [names |-> group_by_cols,
                    data |-> [k \in keys |->
                        SumDelta(SelectSeq(results_df,
                            LAMBDA row : GroupKey(row, group_by_cols) = k))]])
        ELSE [names |-> <<>>, data |-> [k \in {<<"Net PODs">>} |-> SumDelta(results_df)]]

IsEmpty(series) == series.data = <<>>

\* DataFrame.sum over the labels S of the values f
RECURSIVE SumOver(_, _)
SumOver(f, S) ==
    IF S = {} THEN 0
    ELSE LET x == CHOOSE y \in S : TRUE IN f[x] + SumOver(f, S \ {x})

EmptyTable == [cells |-> <<>>]
NoTable == [none |-> TRUE]

\* lines 357-359 with the 'Grand Total' row summed before the column is added
_process_for_export_row_first(data) ==
    IF IsEmpty(data) THEN EmptyTable
    ELSE IF Len(data.names) < 2 THEN NoTable
    ELSE LET products == {k[1] : k \in DOMAIN data.data}
             stores == {k[2] : k \in DOMAIN data.data}
             cell(a, b) == IF <<a, b>> \in DOMAIN data.data THEN data.data[<<a, b>>] ELSE 0
             row_total(a) == SumOver([b \in stores |-> cell(a, b)], stores)
             column_total(b) == SumOver([a \in products |-> cell(a, b)], products)
         IN  [cells |->
                [k \in (products \cup {"Grand Total"}) \X (stores \cup {"Grand Total"}) |->
                    IF k[1] # "Grand Total" /\ k[2] # "Grand Total" THEN cell(k[1], k[2])
                    ELSE IF k[1] # "Grand Total" THEN row_total(k[1])
                    ELSE IF k[2] # "Grand Total" THEN column_total(k[2])
                    ELSE 0]]

\* lines 313-368: a series of two index levels unstacked on the second,
\* holes filled with 0, a 'Grand Total' column and row added
_process_for_export(data) ==
    IF IsEmpty(data) THEN EmptyTable
    ELSE IF Len(data.names) < 2 THEN NoTable
    ELSE LET products == {k[1] : k \in DOMAIN data.data}
             stores == {k[2] : k \in DOMAIN data.data}
             cell(a, b) == IF <<a, b>> \in DOMAIN data.data THEN data.data[<<a, b>>] ELSE 0
             row_total(a) == SumOver([b \in stores |-> cell(a, b)], stores)
             column_total(b) == SumOver([a \in products |-> cell(a, b)], products)
         IN  [cells |->
                [k \in (products \cup {"Grand Total"}) \X (stores \cup {"Grand Total"}) |->
                    IF k[1] # "Grand Total" /\ k[2] # "Grand Total" THEN cell(k[1], k[2])
                    ELSE IF k[1] # "Grand Total" THEN row_total(k[1])
                    ELSE IF k[2] # "Grand Total" THEN column_total(k[2])
                    ELSE SumOver([a \in products |-> row_total(a)], products)]]

\* lines 279-311: the plan of the export, run with and without the future
ExportPlan == [filters |-> [column \in {} |-> NoStr], group_by |-> <<"product_name", "retailer">>]

get_export_data_for_both_views(rows, s, day) ==
    LET current_data_to_export == execute_query_plan(ExportPlan, FALSE, rows, s, day)
        future_data_to_export == execute_query_plan(ExportPlan, TRUE, rows, s, day)
    IN  IF "exc" \in DOMAIN current_data_to_export THEN current_data_to_export
        ELSE [current |-> IF ~IsEmpty(current_data_to_export)
                          THEN _process_for_export(current_data_to_export)
                          ELSE EmptyTable,
              future |-> IF ~IsEmpty(future_data_to_export)
                         THEN _process_for_export(future_data_to_export)
                         ELSE EmptyTable]

----------------------------------------------------------------------------
(* Requests the model submits *)

Body(p, r, q, st, d) ==
    [product_name |-> p, retailer_name |-> r, quantity |-> q, status |-> st,
     effective_date |-> d]

\* POST /transactions: a gain, losses, a product the catalog does not hold,
\* a negative quantity, a quantity of 0
SingleBodies ==
    { Body("12oz Cheerios", "Walmart", 1, "planned", NoDate),
      Body("12oz Cheerios", "Walmart", 1, "lost", NoDate),
      Body("12oz Cheerios", "Walmart", MaxQty, "lost", MaxDay),
      Body("zzz", "Walmart", 1, "planned", NoDate),
      Body("12oz Cheerios", "Walmart", -1, "planned", NoDate),
      Body("12oz Cheerios", "Walmart", NoQty, "planned", NoDate) }

\* every shape of body, for the checks of validate_and_enrich_data alone
WideBodies ==
    { Body(p, r, q, st, d) :
        p \in {NoStr, "12oz Cheerios", "cheerios", "12 oz cheerio", "12 cheerio", "zzz"},
        r \in {NoStr, "Walmart", "zzz"},
        q \in (-MaxQty)..MaxQty,
        st \in {NoStr, "planned", "Planned", "lost", "LOST", "live"},
        d \in {NoDate, BadDate} \cup Days }

\* the requests of the two racing threads and the uploads beside them
RaceBodies ==
    { Body("12oz Cheerios", "Walmart", 1, "lost", NoDate),
      Body("12oz Cheerios", "Walmart", 1, "planned", NoDate),
      Body("zzz", "Walmart", 1, "planned", NoDate) }

RaceFiles ==
    { [parseable |-> TRUE, rows |-> << Body("12oz cheerios", "walmart", q, "planned", 1) >>] :
        q \in 1..MaxQty }

\* rows of an uploaded CSV: gains and losses on the first and the last day
\* for one key, a gain for a second key written with a negative quantity,
\* a row that fails validation
BulkRows ==
    { Body("12oz cheerios", "walmart", 1, "planned", 1),
      Body("12oz cheerios", "walmart", 1, "planned", MaxDay),
      Body("12oz cheerios", "walmart", 1, "lost", 1),
      Body("12oz cheerios", "walmart", MaxQty, "lost", 1),
      Body("12oz cheerios", "walmart", 1, "lost", MaxDay),
      Body("family size oreos", "walmart", -1, "planned", 1),
      Body("zzz", "walmart", 1, "planned", 1) }

SeqsUpTo(S, n) == UNION { [1..m -> S] : m \in 0..n }

BulkFiles ==
    { [parseable |-> TRUE, rows |-> sq] : sq \in SeqsUpTo(BulkRows, MaxBatch) }
    \cup { [parseable |-> FALSE, rows |-> <<>>] }

\* rows of the files whose upload is checked row by row: a gain and a loss
\* of the same quantity for one key on day 1, a row that fails validation
BatchGain == Body("12oz cheerios", "walmart", MaxQty, "planned", 1)
BatchLoss == Body("12oz cheerios", "walmart", MaxQty, "lost", 1)
BatchBad == Body("zzz", "walmart", 1, "planned", 1)

BatchFiles ==
    { [parseable |-> TRUE, rows |-> sq] :
        sq \in SeqsUpTo({BatchGain, BatchLoss, BatchBad}, BatchLen) }
    \cup { [parseable |-> FALSE, rows |-> <<>>] }

\* query plans: no dimension, the dashboard's two dimensions, a dimension
\* the frame does not have, a filter that matches, one on a column the frame
\* does not have, one that matches nothing
NoFilters == [column \in {} |-> NoStr]

QueryPlans ==
    { [filters |-> NoFilters, group_by |-> <<>>],
      [filters |-> NoFilters, group_by |-> <<"product_name", "retailer">>],
      [filters |-> NoFilters, group_by |-> <<"region">>],
      [filters |-> [product_name |-> "cheerios"], group_by |-> <<"product_name">>],
      [filters |-> [region |-> "west"], group_by |-> <<>>],
      [filters |-> [product_name |-> "zzz"], group_by |-> <<>>] }

\* uploads of one row, to build the ledger the queries read
QueryFiles == { [parseable |-> TRUE, rows |-> << row >>] : row \in BulkRows }

\* grouped series handed to the pivot: a net quantity, 0 and negatives
\* among them, for any of the (product, retailer) pairs of the catalog
PivotKeys == {"12oz cheerios", "family size oreos"} \X {"Walmart", "Target"}

PivotSeries ==
    { [names |-> <<"product_name", "retailer">>, data |-> f] :
        f \in UNION { [S -> (-1)..MaxQty] : S \in SUBSET PivotKeys } }

\* files whose rows are enriched at given readings of the clock: gains for
\* one product at two retailers and for a second product, a row that fails
\* validation; two rows in a row may read the same time
ClockRows ==
    { Body("12oz cheerios", "walmart", 1, "planned", 1),
      Body("12oz cheerios", "target", 1, "planned", 1),
      Body("family size oreos", "walmart", 1, "planned", 1),
      Body("zzz", "walmart", 1, "planned", 1) }

Readings(n) == { c \in [1..n -> 1..n] : \A i \in 1..(n - 1) : c[i] <= c[i + 1] }

ClockFiles ==
    UNION { { [parseable |-> TRUE, rows |-> sq, clock |-> c] :
                sq \in [1..n -> ClockRows], c \in Readings(n) } : n \in 0..MaxBatch }

\* rows of the files whose simulation is checked: for one key a gain of 1,
\* a loss of 1 and a loss of MaxQty on day 1 and a loss of 1 on the last
\* day, and a loss of 1 for a second key
SimRows ==
    { Body("12oz cheerios", "walmart", 1, "planned", 1),
      Body("12oz cheerios", "walmart", MaxQty, "lost", 1),
      Body("12oz cheerios", "walmart", 1, "lost", 1),
      Body("12oz cheerios", "walmart", 1, "lost", MaxDay),
      Body("family size oreos", "target", 1, "lost", 1) }

SimFiles == { [parseable |-> TRUE, rows |-> sq] : sq \in SeqsUpTo(SimRows, BatchLen) }

----------------------------------------------------------------------------
(* State machine *)

\* The store after the first init_db_and_seed, no request served yet.
InitStore ==
    /\ schema \in {"relational", "legacy"}
    /\ skus = initial_skus
    /\ retailers = initial_retailers
    /\ ledger = <<>>
    /\ pc = [p \in Procs |-> "idle"]
    /\ sent = [p \in Procs |-> NoBody]
    /\ req = [p \in Procs |-> NoData]
    /\ seen = [p \in Procs |-> 0]
    /\ outcome = [p \in Procs |-> NoAnswer]
    /\ bulk = NoBulk
    /\ upload = NoFile
    /\ view = NoView

Init ==
    /\ InitStore
    /\ today = 1

\* database.py lines 77-87 without the SELECT COUNT(*) test
seed_always(table, seed) == table \o seed

\* database.py lines 77-87: a master table is seeded when it holds no row
seed_if_empty(table, seed) == IF Len(table) = 0 THEN seed ELSE table

\* database.init_db_and_seed, run at every start of the API: CREATE TABLE IF
\* NOT EXISTS keeps the tables there are, the master tables are seeded when
\* they are empty
init_db_and_seed ==
    /\ skus' = seed_if_empty(skus, initial_skus)
    /\ retailers' = seed_if_empty(retailers, initial_retailers)
    /\ UNCHANGED <<schema, ledger, today, pc, sent, req, seen, outcome, bulk, upload, view>>

AdvanceDay ==
    /\ today < MaxDay
    /\ today' = today + 1
    /\ UNCHANGED <<schema, skus, retailers, ledger, pc, sent, req, seen, outcome, bulk,
                   upload, view>>

\* api.create_transaction, served without interruption by thread 1
CreateTransaction(body) ==
    \E v \in {validate_and_enrich_data(body, "api", today, 0)} :
    \E r \in {IF v.ok THEN process_new_transaction(v.value, ledger, schema) ELSE v} :
        /\ pc[1] = "idle"
        /\ ledger' = IF r.ok THEN r.value ELSE ledger
        /\ sent' = [sent EXCEPT ![1] = body]
        /\ req' = [req EXCEPT ![1] = IF v.ok THEN v.value ELSE NoData]
        /\ outcome' = [outcome EXCEPT ![1] = Answer(r)]
        /\ bulk' = NoBulk
        /\ UNCHANGED <<schema, skus, retailers, today, pc, seen, upload, view>>

\* api.bulk_upload_transactions
bulk_upload_transactions(file) ==
    \E r \in {process_bulk_file(file, ledger, schema, today)} :
        /\ r.ok => Len(r.value.rows) <= MaxLedger
        /\ ledger' = IF r.ok THEN r.value.rows ELSE ledger
        /\ bulk' = IF r.ok THEN [code |-> 200, count |-> r.value.count,
                                 errors |-> r.value.errors]
                   ELSE [code |-> 500, exc |-> r.exc, msg |-> r.msg]
        /\ sent' = [p \in Procs |-> IF pc[p] = "idle" THEN NoBody ELSE sent[p]]
        /\ req' = [p \in Procs |-> IF pc[p] = "idle" THEN NoData ELSE req[p]]
        /\ outcome' = [p \in Procs |-> NoAnswer]
        /\ UNCHANGED <<schema, skus, retailers, today, pc, seen>>

BulkUpload(file) ==
    /\ bulk_upload_transactions(file)
    /\ UNCHANGED <<upload, view>>

\* api.create_transaction on thread p, up to the call of process_new_transaction
Submit(p, body) ==
    \E v \in {validate_and_enrich_data(body, "api", today, 0)} :
        /\ pc[p] = "idle"
        /\ sent' = [sent EXCEPT ![p] = body]
        /\ pc' = [pc EXCEPT ![p] = IF v.ok THEN "loss_check" ELSE "idle"]
        /\ req' = [req EXCEPT ![p] = IF v.ok THEN v.value ELSE NoData]
        /\ outcome' = [outcome EXCEPT ![p] = IF v.ok THEN NoAnswer ELSE Answer(v)]
        /\ seen' = [seen EXCEPT ![p] = 0]
        /\ UNCHANGED <<schema, skus, retailers, ledger, today, bulk, upload, view>>

\* the next database call of process_new_transaction on thread p; each call
\* opens its own connection, and nothing holds the store between them
Step(p) ==
    \E r \in { IF pc[p] = "loss_check" THEN loss_check(req[p], ledger)
               ELSE IF pc[p] = "duplicate_check" THEN duplicate_check(req[p], ledger, schema)
               ELSE insert_transaction(req[p], ledger, schema) } :
        /\ pc[p] # "idle"
        /\ ledger' = IF r.ok /\ pc[p] = "insert" THEN r.value ELSE ledger
        /\ seen' = [seen EXCEPT ![p] = IF r.ok /\ pc[p] = "loss_check" THEN r.value ELSE @]
        /\ pc' = [pc EXCEPT ![p] =
                    IF ~r.ok \/ pc[p] = "insert" THEN "idle"
                    ELSE IF pc[p] = "loss_check" THEN "duplicate_check" ELSE "insert"]
        /\ outcome' = [outcome EXCEPT ![p] =
                    IF ~r.ok THEN Answer(r)
                    ELSE IF pc[p] = "insert" THEN Answer(Return(TRUE)) ELSE @]
        /\ UNCHANGED <<schema, skus, retailers, today, sent, req, bulk, upload, view>>

\* one call of the handler from a fresh start, for the checks of validation alone
ValidateOnce(body) ==
    /\ sent[1] = NoBody
    /\ CreateTransaction(body)

Next ==
    \/ \E body \in SingleBodies : CreateTransaction(body)
    \/ \E file \in BulkFiles : BulkUpload(file)
    \/ init_db_and_seed
    \/ AdvanceDay

Spec == Init /\ [][Next]_vars

\* validate_and_enrich_data on every shape of body, on every day
InitValidate ==
    /\ InitStore
    /\ today \in Days

NextValidate == \E body \in WideBodies : ValidateOnce(body)

SpecValidate == InitValidate /\ [][NextValidate]_vars

NextRace ==
    \/ \E p \in Procs, body \in RaceBodies : Submit(p, body)
    \/ \E p \in Procs : Step(p)
    \/ \E file \in RaceFiles : BulkUpload(file)

SpecRace == Init /\ [][NextRace]_vars

\* uploads alone, each remembered with its file
Upload(file) ==
    /\ bulk_upload_transactions(file)
    /\ upload' = file
    /\ UNCHANGED view

NextBatch == \E file \in BatchFiles : Upload(file)

SpecBatch == Init /\ [][NextBatch]_vars

\* api.query_data and api.get_summary_table_query: a plan executed
Query(query_plan, include_future) ==
    \E r \in {execute_query_plan(query_plan, include_future, ledger, schema, today)} :
        /\ view' = [kind |-> "query", plan |-> query_plan, include_future |-> include_future,
                    code |-> IF "exc" \in DOMAIN r THEN 500 ELSE 200, result |-> r]
        /\ bulk' = NoBulk
        /\ UNCHANGED <<schema, skus, retailers, ledger, today, pc, sent, req, seen, outcome,
                       upload>>

\* api.export_to_excel: 404 when both tables are empty
Export ==
    \E r \in {get_export_data_for_both_views(ledger, schema, today)} :
        /\ view' = IF "exc" \in DOMAIN r THEN [kind |-> "export", code |-> 500]
                   ELSE [kind |-> "export",
                         code |-> IF r.current = EmptyTable /\ r.future = EmptyTable
                                  THEN 404 ELSE 200,
                         current |-> r.current, future |-> r.future]
        /\ bulk' = NoBulk
        /\ UNCHANGED <<schema, skus, retailers, ledger, today, pc, sent, req, seen, outcome,
                       upload>>

\* an upload between queries
QueryUpload(file) ==
    /\ bulk_upload_transactions(file)
    /\ view' = NoView
    /\ UNCHANGED upload

NextQuery ==
    \/ \E file \in QueryFiles : QueryUpload(file)
    \/ \E query_plan \in QueryPlans, include_future \in BOOLEAN : Query(query_plan, include_future)
    \/ Export
    \/ AdvanceDay

SpecQuery == Init /\ [][NextQuery]_vars

\* _process_for_export applied to a grouped series
Pivot(data) ==
    /\ view' = [kind |-> "pivot", input |-> data, table |-> _process_for_export(data)]
    /\ bulk' = NoBulk
    /\ UNCHANGED <<schema, skus, retailers, ledger, today, pc, sent, req, seen, outcome,
                   upload>>

NextPivot == \E data \in PivotSeries : Pivot(data)

SpecPivot == Init /\ [][NextPivot]_vars

\* pods_ledger.db before the first start: no master rows yet
InitFresh ==
    /\ schema \in {"relational", "legacy"}
    /\ skus = <<>>
    /\ retailers = <<>>
    /\ ledger = <<>>
    /\ today = 1
    /\ pc = [p \in Procs |-> "idle"]
    /\ sent = [p \in Procs |-> NoBody]
    /\ req = [p \in Procs |-> NoData]
    /\ seen = [p \in Procs |-> 0]
    /\ outcome = [p \in Procs |-> NoAnswer]
    /\ bulk = NoBulk
    /\ upload = NoFile
    /\ view = NoView

\* api.py line 17, cli.py line 11: a start of the API or of the CLI runs
\* init_db_and_seed before anything is served; the answers of the process
\* that ran before are gone
Start ==
    /\ skus' = seed_if_empty(skus, initial_skus)
    /\ retailers' = seed_if_empty(retailers, initial_retailers)
    /\ view' = [kind |-> "start"]
    /\ bulk' = NoBulk
    /\ sent' = [p \in Procs |-> NoBody]
    /\ req' = [p \in Procs |-> NoData]
    /\ outcome' = [p \in Procs |-> NoAnswer]
    /\ UNCHANGED <<schema, ledger, today, pc, seen, upload>>

\* requests are served once a start has run
Serving == Len(skus) > 0

NextSeed ==
    \/ Start
    \/ Serving /\ \E body \in RaceBodies : CreateTransaction(body)
    \/ Serving /\ \E file \in QueryFiles : BulkUpload(file)
    \/ Serving /\ \E query_plan \in QueryPlans, include_future \in BOOLEAN :
                      Query(query_plan, include_future)
    \/ Serving /\ Export

SpecSeed == InitFresh /\ [][NextSeed]_vars

\* uploads whose rows are enriched at the readings the file carries
NextIds == \E file \in ClockFiles : Upload(file)

SpecIds == Init /\ [][NextIds]_vars

NextSim == \E file \in SimFiles : Upload(file)

SpecSim == Init /\ [][NextSim]_vars

----------------------------------------------------------------------------
(* Properties *)

\* the (product, retailer) pair of a ledger row, in either layout of the table
PairOf(r) ==
    IF "sku_id" \in DOMAIN r THEN <<r.sku_id, r.retailer_id>>
    ELSE <<r.product_name, r.retailer>>

\* the pair's running total over the rows dated on or before D
TotalAsOf(rows, pair, D) ==
    SumDelta(SelectSeq(rows, LAMBDA r : PairOf(r) = pair /\ r.effective_date <= D))

\* a ledger row carrying the business tuple of the enriched transaction t
Identical(t, r) ==
    /\ PairOf(r) = <<t.product_name, t.retailer>>
    /\ r.quantity_changed = t.quantity_changed
    /\ r.effective_date = t.effective_date

\* a step that answers a POST /transactions on thread 1, served whole
CreateStep == outcome'[1].code # 0 /\ today' = today /\ bulk' = NoBulk

C2_LossWithinTotalPassesCheck ==
    [][\A p \in Procs :
          ( /\ pc[p] = "loss_check"
            /\ pc'[p] # "loss_check"
            /\ req[p].quantity_changed < 0
            /\ Abs(req[p].quantity_changed)
                 <= TotalAsOf(ledger, <<req[p].product_name, req[p].retailer>>,
                              req[p].effective_date) )
          => pc'[p] = "duplicate_check"]_vars

\* C3: a valid gain submitted through POST /transactions is appended and
\* answered with success when the ledger holds no identical row, and is
\* answered with the duplicate error, nothing appended, when it does.
C3_DuplicateRejectedSecondTime ==
    [][( /\ CreateStep
         /\ req'[1] # NoData
         /\ req'[1].quantity_changed > 0 )
       => IF \E i \in 1..Len(ledger) : Identical(req'[1], ledger[i])
          THEN /\ outcome'[1].code = 400
               /\ outcome'[1].msg = "Duplicate transaction detected."
               /\ ledger' = ledger
          ELSE /\ outcome'[1].code = 200
               /\ Len(ledger') = Len(ledger) + 1
               /\ Identical(req'[1], ledger'[Len(ledger')])]_vars

\* C4: no two rows of the ledger share the same product, retailer,
\* quantity_changed and effective_date.
C4_NoDuplicateRows ==
    \A i, j \in 1..Len(ledger) :
        ( /\ i < j
          /\ PairOf(ledger[i]) = PairOf(ledger[j])
          /\ ledger[i].quantity_changed = ledger[j].quantity_changed )
        => ledger[i].effective_date # ledger[j].effective_date

\* C5: a validated loss is refused with the business-rule error exactly when
\* its quantity exceeds the pair's running total over the rows dated on or
\* before its own date; a gain is never refused with that error.
C5_LossRefusedIffExceedsTotal ==
    [][( /\ CreateStep
         /\ req'[1] # NoData )
       => ( ( /\ outcome'[1].code = 400
              /\ outcome'[1].msg = "Cannot lose" )
            <=> ( /\ req'[1].quantity_changed < 0
                  /\ Abs(req'[1].quantity_changed)
                       > TotalAsOf(ledger, <<req'[1].product_name, req'[1].retailer>>,
                                   req'[1].effective_date) ) )]_vars

C7_AppendOnly ==
    [][\A i \in 1..Len(ledger) : Len(ledger') >= i /\ ledger'[i] = ledger[i]]_vars

\* an upload that persisted one row after the rows of an earlier upload
C7_Witness ==
    /\ Len(ledger) >= 2
    /\ bulk.code = 200
    /\ bulk.count = 1

\* C8: for every accepted input the status is 'planned' iff the intent is
\* planned and the effective date is strictly after today, 'live' iff the
\* intent is planned and the date is on or before today, 'lost' iff the
\* intent is lost.
C8_StatusDerivation ==
    req[1] # NoData =>
        LET intent == Lower(sent[1].status)
            t == req[1]
        IN  /\ t.status \in {"planned", "live", "lost"}
            /\ t.status = "planned" <=> (intent = "planned" /\ t.effective_date > today)
            /\ t.status = "live" <=> (intent = "planned" /\ t.effective_date <= today)
            /\ t.status = "lost" <=> intent = "lost"

\* a planned gain dated today by the sender, recorded as live
C8_Witness ==
    /\ req[1] # NoData
    /\ sent[1].effective_date = today
    /\ req[1].effective_date = today
    /\ req[1].status = "live"

ValidationReasons ==
    {"Missing one or more required fields.", "Invalid SKU", "Invalid Retailer",
     "Unknown datetime string format", "Invalid action intent"}

\* C10: a body lacking product name, retailer name, quantity or intent, or
\* whose intent is neither 'planned' nor 'lost', is refused with one
\* validation error and nothing is appended; a body accepted without an
\* effective date carries today's date.
C10_ValidationFailure ==
    sent[1] # NoBody =>
        /\ ( \/ sent[1].product_name = NoStr
             \/ sent[1].retailer_name = NoStr
             \/ sent[1].quantity = NoQty
             \/ sent[1].status = NoStr
             \/ Lower(sent[1].status) \notin {"planned", "lost"} )
           => /\ req[1] = NoData
              /\ outcome[1].code = 400
              /\ outcome[1].exc = "ValueError"
              /\ outcome[1].msg \in ValidationReasons
              /\ ledger = <<>>
        /\ (req[1] # NoData /\ sent[1].effective_date = NoDate)
           => req[1].effective_date = today
        /\ req[1] = NoData => outcome[1].msg \in ValidationReasons

\* a body refused for its intent, on a day when a body without a date was
\* also on offer
C10_Witness ==
    /\ sent[1] # NoBody
    /\ sent[1].status = "live"
    /\ sent[1].effective_date = NoDate
    /\ today > 1
    /\ outcome[1].code = 400
    /\ outcome[1].msg = "Invalid action intent"

\* the top score of an input against a catalog
TopScore(query, choices) ==
    LET scores == {Score(Lower(query), choices[i]) : i \in 1..Len(choices)}
    IN  CHOOSE m \in scores : \A n \in scores : n <= m

\* C11: a body with every required field whose product scores under 80
\* against every catalog entry is refused with a validation error naming the
\* product input, one whose product resolves but whose retailer scores under
\* 80 with a validation error naming the retailer input, and no transaction
\* is produced; an input scoring 80 or more resolves to a top-scoring entry.
C11_ResolverThreshold ==
    ( /\ sent[1] # NoBody
      /\ sent[1].product_name # NoStr
      /\ sent[1].retailer_name # NoStr
      /\ sent[1].quantity # NoQty
      /\ sent[1].status # NoStr )
    => LET ps == TopScore(sent[1].product_name, get_master_data_from_db("skus"))
           rs == TopScore(sent[1].retailer_name, get_master_data_from_db("retailers"))
           refused(m, input) ==
               /\ req[1] = NoData
               /\ outcome[1].code = 400
               /\ outcome[1].exc = "ValueError"
               /\ outcome[1].msg = m
               /\ outcome[1].about = input
       IN  /\ ps < 80 => refused("Invalid SKU", sent[1].product_name)
           /\ (ps >= 80 /\ rs < 80) => refused("Invalid Retailer", sent[1].retailer_name)
           /\ (ps >= 80 /\ rs >= 80)
              => outcome[1].msg \notin {"Invalid SKU", "Invalid Retailer"}
           /\ req[1] # NoData
              => Score(Lower(sent[1].product_name), req[1].product_name) = ps

\* a product input scoring exactly 80, resolved and enriched
C11_Witness ==
    /\ sent[1] # NoBody
    /\ sent[1].product_name = "12 oz cheerio"
    /\ req[1] # NoData
    /\ req[1].product_name = "12oz cheerios"

\* the consistency errors among the entries of an upload's error list
ConsistencyErrors(errors) == SelectSeq(errors, LAMBDA e : e.kind = "consistency")

\* the files holding one gain and two losses of the same quantity, day 1, in
\* every order
GainLossLoss ==
    { [parseable |-> TRUE, rows |-> sq] :
        sq \in { <<BatchGain, BatchLoss, BatchLoss>>,
                 <<BatchLoss, BatchGain, BatchLoss>>,
                 <<BatchLoss, BatchLoss, BatchGain>> } }

\* C12: a file holding a gain of q and two losses of q for one key on day 1,
\* in whatever order, uploaded when the ledger has no row of that key, has
\* the gain and one loss accepted and one loss refused with a consistency
\* error.
C12_OrderIndependentBatch ==
    [][( /\ upload' \in GainLossLoss
         /\ ledger = <<>> )
       => /\ Len(ConsistencyErrors(bulk'.errors)) = 1
          /\ schema = "legacy" =>
                /\ bulk'.count = 2
                /\ Len(ledger') = 2
                /\ \E i, j \in 1..2 :
                      /\ ledger'[i].quantity_changed = MaxQty
                      /\ ledger'[j].quantity_changed = -MaxQty]_vars

\* the entries of one kind in an upload's error list
ErrorsOfKind(errors, kind) == SelectSeq(errors, LAMBDA e : e.kind = kind)

\* the rows of the uploaded file that pass validation and simulation
Survivors(file, errors) ==
    Len(file.rows) - Len(ErrorsOfKind(errors, "row")) - Len(ErrorsOfKind(errors, "consistency"))

\* C13: an upload either persists every row that survived the simulation,
\* after the rows already there, or persists none of them, leaves the ledger
\* as it was, reports the failure as one error entry and returns a count of 0.
C13_BulkAllOrNothing ==
    [][( /\ upload' # NoFile
         /\ bulk'.code = 200 )
       => LET n == Survivors(upload', bulk'.errors)
              failed == Len(ErrorsOfKind(bulk'.errors, "database"))
          IN  \/ /\ failed = 0
                 /\ Len(ledger') = Len(ledger) + n
                 /\ SubSeq(ledger', 1, Len(ledger)) = ledger
                 /\ bulk'.count = n
              \/ /\ failed = 1
                 /\ n > 0
                 /\ ledger' = ledger
                 /\ bulk'.count = 0]_vars

\* an upload of two surviving rows whose insert failed
C13_WitnessFailed ==
    /\ upload # NoFile
    /\ bulk.code = 200
    /\ Survivors(upload, bulk.errors) = 2
    /\ Len(ErrorsOfKind(bulk.errors, "database")) = 1
    /\ bulk.count = 0

\* C14: a row of an upload that fails validation has one entry in the error
\* list, with its row number and the reason of the failure; the ledger, the
\* count and the other errors are those of the upload of the same file
\* without the failing rows.
C14_FailingRowDoesNotAbort ==
    [][( /\ upload' # NoFile
         /\ upload'.parseable
         /\ bulk'.code = 200 )
       => LET rows_in == upload'.rows
              check(x) == validate_and_enrich_data(x, "bulk_upload", today, 0)
              failing == {i \in 1..Len(rows_in) : ~check(rows_in[i]).ok}
              without == [parseable |-> TRUE,
                          rows |-> SelectSeq(rows_in, LAMBDA x : check(x).ok)]
              alone == process_bulk_file(without, ledger, schema, today).value
              row_errors == ErrorsOfKind(bulk'.errors, "row")
          IN  /\ Len(row_errors) = Cardinality(failing)
              /\ \A i \in failing :
                    \E k \in 1..Len(row_errors) :
                        /\ row_errors[k].row = i + 1
                        /\ row_errors[k].msg = check(rows_in[i]).msg
                        /\ row_errors[k].about = check(rows_in[i]).about
              /\ ledger' = alone.rows
              /\ bulk'.count = alone.count
              /\ SelectSeq(bulk'.errors, LAMBDA e : e.kind # "row") = alone.errors]_vars

\* a file whose second row fails validation, its first and third persisted
C14_Witness ==
    /\ upload # NoFile
    /\ upload.rows = <<BatchGain, BatchBad, BatchLoss>>
    /\ bulk.count = 2
    /\ ErrorsOfKind(bulk.errors, "row") # <<>>

\* C15: an upload returns a count equal to the number of rows it persisted;
\* when the insert did not fail every row of the file is either persisted or
\* has exactly one entry in the error list carrying the row's number, so that
\* count + Len(errors) is the number of rows of the file.
C15_BulkAccounting ==
    [][( /\ upload' # NoFile
         /\ upload'.parseable )
       => /\ bulk'.code = 200
          /\ bulk'.count = Len(ledger') - Len(ledger)
          /\ ErrorsOfKind(bulk'.errors, "database") = <<>>
             => /\ bulk'.count + Len(bulk'.errors) = Len(upload'.rows)
                /\ \A k \in 1..Len(bulk'.errors) :
                      /\ bulk'.errors[k].row \in 2..(Len(upload'.rows) + 1)
                      /\ \A j \in 1..Len(bulk'.errors) :
                            bulk'.errors[j].row = bulk'.errors[k].row => j = k]_vars

\* C16: the upload of a file that cannot be parsed fails as a whole with the
\* format error; the ledger is as it was and no count or error list is
\* returned.
C16_UnparseableBatch ==
    [][( /\ upload' # NoFile
         /\ ~upload'.parseable )
       => /\ ledger' = ledger
          /\ bulk'.code = 500
          /\ bulk'.exc = "ValueError"
          /\ bulk'.msg = "Could not parse CSV file"
          /\ DOMAIN bulk' \cap {"count", "errors"} = {}]_vars

\* an unparseable file refused while the ledger holds rows
C16_Witness ==
    /\ upload # NoFile
    /\ ~upload.parseable
    /\ Len(ledger) > 0
    /\ bulk.code = 500

\* a ledger row under the names of the frame, in either layout of the table
Named(r) ==
    IF "product_name" \in DOMAIN r THEN r
    ELSE [product_name |-> skus[r.sku_id].product_name,
          retailer |-> retailers[r.retailer_id].retailer_name,
          status |-> r.status, quantity_changed |-> r.quantity_changed,
          effective_date |-> r.effective_date]

\* the ledger rows an aggregation is to count: all of them, or those dated
\* on or before the day
Counted(rows, include_future, day) ==
    LET named == [i \in 1..Len(rows) |-> Named(rows[i])]
    IN  IF include_future THEN named
        ELSE SelectSeq(named, LAMBDA r : r.effective_date <= day)

\* a step that answered a query
QueryStep == view' # NoView /\ view'.kind = "query" /\ bulk' = NoBulk /\ today' = today

\* a step that answered an export
ExportStep == view' # NoView /\ view'.kind = "export" /\ bulk' = NoBulk /\ today' = today

\* C17: a plan without filters or dimensions, run with include_future false,
\* sums exactly the ledger rows dated on or before today, and with
\* include_future true every ledger row; the ledger is not changed.
C17_AggregationCutoff ==
    [][( /\ QueryStep
         /\ view'.plan.filters = NoFilters
         /\ view'.plan.group_by = <<>> )
       => LET counted == Counted(ledger, view'.include_future, today)
          IN  /\ ledger' = ledger
              /\ view'.code = 200
              /\ view'.result.data =
                    IF counted = <<>> THEN <<>>
                    ELSE [k \in {<<"Net PODs">>} |-> SumDelta(counted)]]_vars

\* C18: when the counted rows that pass the filters are not empty and the
\* dimensions are columns of the frame, the result has one row for each
\* combination of dimension values among those rows, valued with the sum of
\* their quantity_changed; without dimensions it is the one sum 'Net PODs'.
C18_GroupAndSum ==
    [][QueryStep
       => LET plan == view'.plan
              filtered == ApplyFilters(Counted(ledger, view'.include_future, today),
                                       plan.filters)
              keys == {GroupKey(filtered[i], plan.group_by) : i \in 1..Len(filtered)}
          IN  ( /\ filtered # <<>>
                /\ \A i \in 1..Len(plan.group_by) : plan.group_by[i] \in FrameColumns )
              => /\ view'.code = 200
                 /\ view'.result.data =
                       IF plan.group_by = <<>>
                       THEN [k \in {<<"Net PODs">>} |-> SumDelta(filtered)]
                       ELSE [k \in keys |->
                               SumDelta(SelectSeq(filtered,
                                   LAMBDA r : GroupKey(r, plan.group_by) = k))]]_vars

CellOf(table, key) ==
    IF key \in DOMAIN table.cells THEN table.cells[key] ELSE 0

\* C20: in an export, for every key of the ledger the future-inclusive total
\* is the current total plus the sum of the key's rows dated after today,
\* and the Grand Total cell of the future-inclusive table is the sum of all
\* quantity_changed of a ledger that holds rows.
C20_CurrentVsFuture ==
    [][ExportStep
       => /\ view'.code # 500
          /\ \A i \in 1..Len(ledger) :
                LET key == <<Named(ledger[i]).product_name, Named(ledger[i]).retailer>>
                    later == SelectSeq(ledger, LAMBDA r :
                                /\ <<Named(r).product_name, Named(r).retailer>> = key
                                /\ r.effective_date > today)
                IN  CellOf(view'.future, key) = CellOf(view'.current, key) + SumDelta(later)
          /\ ledger # <<>>
             => CellOf(view'.future, <<"Grand Total", "Grand Total">>) = SumDelta(ledger)]_vars

\* C21: the pivot of a non-empty series grouped by product and retailer has
\* one row per product and one column per retailer of the series, plus the
\* 'Grand Total' row and column; a cell holds its pair's net quantity, or 0
\* for a pair the series lacks; the 'Grand Total' column holds each row's sum
\* over the retailers, the 'Grand Total' row each column's sum over the
\* products.
C21_PivotTotals ==
    ( /\ view # NoView
      /\ view.kind = "pivot"
      /\ view.input.data # <<>> )
    => LET series == view.input.data
           products == {k[1] : k \in DOMAIN series}
           stores == {k[2] : k \in DOMAIN series}
           GT == "Grand Total"
       IN  /\ view.table # NoTable
           /\ DOMAIN view.table.cells = (products \cup {GT}) \X (stores \cup {GT})
           /\ \A a \in products, b \in stores :
                 view.table.cells[<<a, b>>] =
                     IF <<a, b>> \in DOMAIN series THEN series[<<a, b>>] ELSE 0
           /\ \A a \in products \cup {GT} :
                 view.table.cells[<<a, GT>>] =
                     SumOver([b \in stores |-> view.table.cells[<<a, b>>]], stores)
           /\ \A b \in stores \cup {GT} :
                 view.table.cells[<<GT, b>>] =
                     SumOver([a \in products |-> view.table.cells[<<a, b>>]], products)

\* a series lacking one pair of its products and retailers, with a negative
\* net among the others, pivoted
C21_Witness ==
    /\ view # NoView
    /\ view.kind = "pivot"
    /\ Cardinality(DOMAIN view.input.data) = 3
    /\ \E k \in DOMAIN view.input.data : view.input.data[k] < 0
    /\ \E k \in PivotKeys \ DOMAIN view.input.data : view.table.cells[k] = 0
    /\ view.table.cells[<<"Grand Total", "Grand Total">>] > 0

\* a step that is a start of the API or of the CLI
StartStep ==
    /\ view' # NoView
    /\ view'.kind = "start"
    /\ bulk' = NoBulk
    /\ outcome'[1] = NoAnswer

\* C23: the first start leaves exactly the seed catalog in both master
\* tables; once seeded, no step (a later start, a validation, a commit, an
\* upload, a query, an export) changes a master row, and a start changes
\* neither the ledger nor, on a seeded store, the master tables.
C23_MasterDataImmutable ==
    [][/\ skus' = initial_skus
       /\ retailers' = initial_retailers
       /\ Len(skus) > 0 => skus' = skus
       /\ Len(retailers) > 0 => retailers' = retailers
       /\ StartStep => ledger' = ledger]_vars

\* a start over a store whose ledger holds rows, the catalog still the seed
C23_Witness ==
    /\ view # NoView
    /\ view.kind = "start"
    /\ Len(ledger) > 0
    /\ skus = initial_skus
    /\ retailers = initial_retailers

\* C22: the rows of one upload that validate_and_enrich_data enriched carry
\* pairwise distinct ids, whatever the products, the retailers and the
\* readings of the clock.
C22_DistinctIds ==
    [][( /\ upload' # NoFile
         /\ upload'.parseable )
       => LET v == Enriched(EnrichAll(upload'.rows, ReadingsOf(upload'), today), 1)
          IN  \A i, j \in 1..Len(v) : i # j => v[i].trx_id # v[j].trx_id]_vars

\* C24: the upload of a file holding a single loss of q, for a key whose
\* persisted rows dated on or before the loss sum to q or more, accepts the
\* loss: no consistency error, one row counted.
C24_SimulationSeededFromLedger ==
    [][( /\ upload' # NoFile
         /\ upload'.parseable
         /\ Len(upload'.rows) = 1
         /\ LET v == validate_and_enrich_data(upload'.rows[1], "bulk_upload", today, 1)
            IN  /\ v.ok
                /\ v.value.quantity_changed < 0
                /\ Abs(v.value.quantity_changed)
                     <= TotalAsOf(ledger, <<v.value.product_name, v.value.retailer>>,
                                  v.value.effective_date) )
       => /\ ConsistencyErrors(bulk'.errors) = <<>>
          /\ bulk'.count = 1]_vars

\* the enriched rows of an uploaded file, in the order of the simulation
Sorted(file, day) == Sort(Enriched(EnrichAll(file.rows, ReadingsOf(file), day), 1))

\* the rows an upload appended to the ledger
Appended(before, after) == SubSeq(after, Len(before) + 1, Len(after))

\* A is the set of places of the sorted rows that a simulation starting from
\* 0 accepts, each loss being judged against the accepted rows of its key
\* before it
AcceptedPlaces(txs, A) ==
    \A k \in 1..Len(txs) :
        k \in A <=>
            \/ txs[k].quantity_changed >= 0
            \/ Abs(txs[k].quantity_changed)
                  <= SumDelta([j \in 1..Len(txs) |->
                                 IF /\ j \in A
                                    /\ j < k
                                    /\ txs[j].product_name = txs[k].product_name
                                    /\ txs[j].retailer = txs[k].retailer
                                 THEN txs[j]
                                 ELSE [quantity_changed |-> 0]])

\* C25: in an upload a loss is refused exactly when it exceeds the sum of the
\* rows of its key accepted before it, the refused rows not counted; each
\* refused loss has one consistency error, the accepted rows are counted
\* and, when the insert does not fail, appended in sorted order.
C25_RefusedLossLeavesTotal ==
    [][( /\ upload' # NoFile
         /\ upload'.parseable )
       => \A txs \in {Sorted(upload', today)} :
          \E A \in SUBSET (1..Len(txs)) :
          \E accepted \in {SelectSeq([i \in 1..Len(txs) |-> [at |-> i, trx |-> txs[i]]],
                                      LAMBDA x : x.at \in A)} :
              /\ AcceptedPlaces(txs, A)
              /\ Len(ConsistencyErrors(bulk'.errors)) = Len(txs) - Cardinality(A)
              /\ bulk'.code = 200
              /\ ErrorsOfKind(bulk'.errors, "database") = <<>>
                 => /\ bulk'.count = Cardinality(A)
                    /\ Appended(ledger, ledger')
                         = [i \in 1..Len(accepted) |-> Row(accepted[i].trx, LegacyColumns)]]_vars

\* gain 1, loss MaxQty, loss 1 of one key on one day: the gain and the loss
\* of 1 persisted, the loss of MaxQty refused
C25_Witness ==
    /\ upload # NoFile
    /\ upload.rows = << Body("12oz cheerios", "walmart", 1, "planned", 1),
                        Body("12oz cheerios", "walmart", MaxQty, "lost", 1),
                        Body("12oz cheerios", "walmart", 1, "lost", 1) >>
    /\ bulk.count = 2
    /\ Len(ConsistencyErrors(bulk.errors)) = 1
    /\ Len(ledger) >= 2
    /\ ledger[Len(ledger)].quantity_changed = -1
    /\ ledger[Len(ledger) - 1].quantity_changed = 1

\* C29: in an upload no gain gets a consistency error: the errors are at
\* most the losses, and every enriched gain is appended when the insert does
\* not fail; after each step of the simulation every key's simulated total
\* is at least 0; and for every key and every date D the rows the upload
\* appended that are dated on or before D sum to at least 0.
C29_SimulationInvariant ==
    [][( /\ upload' # NoFile
         /\ upload'.parseable )
       => \A txs \in {Sorted(upload', today)} :
          \A new \in {Appended(ledger, ledger')} :
              /\ Len(ConsistencyErrors(bulk'.errors))
                    <= Len(SelectSeq(txs, LAMBDA t : t.quantity_changed < 0))
              /\ ErrorsOfKind(bulk'.errors, "database") = <<>>
                 => Len(SelectSeq(new, LAMBDA r : r.quantity_changed > 0))
                      = Len(SelectSeq(txs, LAMBDA t : t.quantity_changed > 0))
              /\ \A n \in 0..Len(txs) :
                    \A state \in {Simulate(SubSeq(txs, 1, n), <<>>, <<>>, <<>>).temp_state} :
                        \A key \in DOMAIN state : state[key] >= 0
              /\ \A i \in 1..Len(new) : \A D \in Days :
                    TotalAsOf(new, PairOf(new[i]), D) >= 0]_vars

\* an upload that appended a gain and, dated after it, a loss that uses it up
C29_Witness ==
    /\ upload # NoFile
    /\ bulk.count = 2
    /\ Len(ledger) >= 2
    /\ ledger[Len(ledger) - 1].quantity_changed = 1
    /\ ledger[Len(ledger) - 1].effective_date = 1
    /\ ledger[Len(ledger)].quantity_changed = -1
    /\ ledger[Len(ledger)].effective_date = MaxDay

\* C26: a loss submitted through POST /transactions that exceeds the running
\* total of its pair and is identical to a row of the ledger is refused
\* with the business-rule error; a loss is refused as a duplicate only when
\* the total covers it.
C26_LossRuleBeforeDuplicate ==
    [][( /\ CreateStep
         /\ req'[1] # NoData
         /\ req'[1].quantity_changed < 0 )
       => LET exceeds == Abs(req'[1].quantity_changed)
                           > TotalAsOf(ledger, <<req'[1].product_name, req'[1].retailer>>,
                                       req'[1].effective_date)
              duplicate == \E i \in 1..Len(ledger) : Identical(req'[1], ledger[i])
          IN  /\ (exceeds /\ duplicate)
                 => /\ outcome'[1].code = 400
                    /\ outcome'[1].msg = "Cannot lose"
                    /\ ledger' = ledger
              /\ outcome'[1].msg = "Duplicate transaction detected." => ~exceeds]_vars

\* the enriched rows submitted one by one to process_new_transaction
RECURSIVE OneByOne(_, _, _)
OneByOne(txs, rows, s) ==
    IF txs = <<>> THEN rows
    ELSE LET r == process_new_transaction(Head(txs), rows, s)
         IN  OneByOne(Tail(txs), IF r.ok THEN r.value ELSE rows, s)

\* the business tuples of the rows of a ledger
Tuples(rows) ==
    { <<PairOf(rows[i]), rows[i].quantity_changed, rows[i].effective_date>> :
        i \in 1..Len(rows) }

\* C27: on an empty ledger, the upload of a file of valid rows, no two of
\* them with the same product, retailer, quantity_changed and date, persists
\* the rows that process_new_transaction accepts when they are submitted one
\* by one in sorted order, and both end in a ledger of as many rows.
C27_BulkRefinesSingleCommits ==
    [][( /\ upload' # NoFile
         /\ upload'.parseable
         /\ ledger = <<>>
         /\ ErrorsOfKind(bulk'.errors, "row") = <<>>
         /\ \A txs \in {Sorted(upload', today)} :
               \A i, j \in 1..Len(txs) : i < j =>
                   \/ txs[i].quantity_changed # txs[j].quantity_changed
                   \/ txs[i].effective_date # txs[j].effective_date
                   \/ txs[i].product_name # txs[j].product_name
                   \/ txs[i].retailer # txs[j].retailer )
       => \A single \in {OneByOne(Sorted(upload', today), ledger, schema)} :
              /\ Tuples(ledger') = Tuples(single)
              /\ Len(ledger') = Len(single)]_vars

\* C28: a gain whose duplicate check runs while the ledger holds no
\* identical row passes it and goes on to its insert, whatever the other
\* thread has checked or inserted meanwhile, and its insert appends the row
\* (so that two identical gains, both checked before either insert, are
\* both appended).
C28_DuplicateCheckThenInsert ==
    [][\A p \in Procs :
          /\ ( /\ pc[p] = "duplicate_check"
               /\ pc'[p] # "duplicate_check"
               /\ req[p].quantity_changed > 0
               /\ ~\E i \in 1..Len(ledger) : Identical(req[p], ledger[i]) )
             => pc'[p] = "insert"
          /\ ( /\ pc[p] = "insert"
               /\ pc'[p] # "insert" )
             => /\ Len(ledger') = Len(ledger) + 1
                /\ Identical(req[p], ledger'[Len(ledger')])]_vars

\* C30: a row keeps the status it was stored with; a query without
\* dimensions and without the future answers nothing while every row of the
\* ledger is dated after today, and once rows stored as 'planned' are dated
\* on or before today it answers the sum of all rows dated on or before
\* today, the 'planned' ones included.
C30_PlannedGainJoinsOnItsDate ==
    [][/\ \A i \in 1..Len(ledger) :
             Len(ledger') >= i /\ ledger'[i].status = ledger[i].status
       /\ ( /\ QueryStep
            /\ ~view'.include_future
            /\ view'.plan.filters = NoFilters
            /\ view'.plan.group_by = <<>> )
          => \A due \in {SelectSeq(ledger, LAMBDA r : r.effective_date <= today)} :
                /\ due = <<>> => view'.result.data = <<>>
                /\ (\E i \in 1..Len(due) : due[i].status = "planned")
                   => view'.result.data = [k \in {<<"Net PODs">>} |-> SumDelta(due)]]_vars

====
